---- MODULE Spec2Model ----
(***************************************************************************)
(* A model of tripadvisor_hotel_reviews_formulator.py: the three result    *)
(* normalisers (predict_stars, extract_aspects, paraphrase_review), the    *)
(* cached pipeline loaders, and the page script that validates a           *)
(* submission, keeps it in the session state and analyses it.              *)
(*                                                                         *)
(* Text is a sequence of characters; a character is a one-character        *)
(* string, or the name of its code point ("U+00B2") when it is not ASCII.  *)
(***************************************************************************)
EXTENDS Integers, Sequences, FiniteSets, TLC

VARIABLES
    \* the page script (one browser session)
    widgets, session_state, pc, review, meta, stars, star_string, topics,
    cleaned_review, warning, outcome, rendered, invoked, submitted,
    \* the st.cache_resource store behind the three loaders
    cache, constructed, lock, callers,
    \* predict_stars alone
    label, rating_out,
    \* extract_aspects alone
    ents, aspects_out,
    \* paraphrase_review alone
    gens, para_call, para_out,
    \* the three stages of one analysis, run in any interleaving
    oracle, threads

pageVars == <<widgets, session_state, pc, review, meta, stars, star_string,
              topics, cleaned_review, warning, outcome, rendered, invoked,
              submitted>>
cacheVars == <<cache, constructed, lock, callers>>
starsVars == <<label, rating_out>>
aspectVars == <<ents, aspects_out>>
paraVars == <<gens, para_call, para_out>>
orderVars == <<oracle, threads>>
vars == <<pageVars, cacheVars, starsVars, aspectVars, paraVars, orderVars>>

(***************************************************************************)
(* Bounds of the model.                                                    *)
(***************************************************************************)
MaxLabelLen == 3
MaxEnts == 3
MaxTextLen == 4
NumCallers == 2
MaxCalls == 3

\* All sequences over S of length at most n.
RECURSIVE SeqsUpTo(_, _)
SeqsUpTo(S, n) ==
    IF n = 0 THEN {<<>>}
    ELSE LET shorter == SeqsUpTo(S, n - 1)
         IN  shorter \cup {Append(s, x) : s \in {t \in shorter : Len(t) = n - 1}, x \in S}

None == "None"

(***************************************************************************)
(* predict_stars                                                           *)
(***************************************************************************)
\* Characters with Numeric_Type=Decimal: the ones int() parses.
DecimalValue ==
    [c \in {"0", "1", "2", "3", "4", "5", "6", "7", "8", "9", "U+0663"} |->
        CASE c = "0" -> 0 [] c = "1" -> 1 [] c = "2" -> 2 [] c = "3" -> 3
          [] c = "4" -> 4 [] c = "5" -> 5 [] c = "6" -> 6 [] c = "7" -> 7
          [] c = "8" -> 8 [] c = "9" -> 9 [] c = "U+0663" -> 3]

\* Characters with Numeric_Type=Digit that are not Decimal: SUPERSCRIPT TWO,
\* CIRCLED DIGIT ONE. str.isdigit accepts them, int() does not.
DigitNotDecimal == {"U+00B2", "U+2460"}

\* str.isdigit of one character.
isdigit(ch) == ch \in DOMAIN DecimalValue \/ ch \in DigitNotDecimal

Min(a, b) == IF a < b THEN a ELSE b
Max(a, b) == IF a > b THEN a ELSE b

\* int(digits) for a non-empty string of isdigit characters.
RECURSIVE int(_)
int(digits) ==
    IF \E i \in 1..Len(digits) : digits[i] \notin DOMAIN DecimalValue
    THEN [exc |-> "ValueError", value |-> 0]
    ELSE IF Len(digits) = 1
         THEN [exc |-> "none", value |-> DecimalValue[digits[1]]]
         ELSE [exc |-> "none",
               value |-> 10 * int(SubSeq(digits, 1, Len(digits) - 1)).value
                         + DecimalValue[digits[Len(digits)]]]

\* predict_stars after the pipeline returned `lbl` as out["label"].
predict_stars(lbl) ==
    LET digits == SelectSeq(lbl, isdigit)
        parsed == IF digits # <<>> THEN int(digits) ELSE [exc |-> "none", value |-> 3]
    IN  IF parsed.exc # "none" THEN parsed
        ELSE [exc |-> "none", value |-> Max(1, Min(5, parsed.value))]

LabelAlphabet == {"s", " ", "0", "1", "5", "7", "U+00B2"}
ExampleLabels ==
    { <<"1", " ", "s", "t", "a", "r">>,
      <<"5", " ", "s", "t", "a", "r", "s">>,
      <<"7", " ", "s", "t", "a", "r", "s">>,
      <<"4", " ", "s", "t", "a", "r", "s">>,
      <<"p", "o", "s", "i", "t", "i", "v", "e">>,
      <<"U+0663", " ", "s", "t", "a", "r", "s">>,
      <<"U+2460", " ", "s", "t", "a", "r">> }
Labels == SeqsUpTo(LabelAlphabet, MaxLabelLen) \cup ExampleLabels

NoRating == [exc |-> "unset", value |-> 0]

(***************************************************************************)
(* extract_aspects                                                         *)
(***************************************************************************)
ASPECT_MAP ==
    [l \in {"FOOD", "BEVERAGE", "STAFF", "SERVICE", "LOCATION", "VIEW", "AMBIENCE"} |->
        CASE l \in {"FOOD", "BEVERAGE"} -> "Food & Beverage"
          [] l \in {"STAFF", "SERVICE"} -> "Staff & Service"
          [] l \in {"LOCATION", "VIEW", "AMBIENCE"} -> "Location & Ambience"]

ALLOWED_TOPICS == {ASPECT_MAP[l] : l \in DOMAIN ASPECT_MAP}

\* dict.get(key): the value, or None when the key is absent.
dict_get(d, key) == IF key \in DOMAIN d THEN d[key] ELSE None

\* The code points of the topic strings, which is what sorted() compares.
CodePoints ==
    [t \in ALLOWED_TOPICS |->
        CASE t = "Food & Beverage" ->
               <<70, 111, 111, 100, 32, 38, 32, 66, 101, 118, 101, 114, 97, 103, 101>>
          [] t = "Location & Ambience" ->
               <<76, 111, 99, 97, 116, 105, 111, 110, 32, 38, 32, 65, 109, 98, 105,
                 101, 110, 99, 101>>
          [] t = "Staff & Service" ->
               <<83, 116, 97, 102, 102, 32, 38, 32, 83, 101, 114, 118, 105, 99, 101>>]

\* a < b for two strings given by their code points.
RECURSIVE CodesLess(_, _)
CodesLess(a, b) ==
    IF b = <<>> THEN FALSE
    ELSE IF a = <<>> THEN TRUE
    ELSE IF a[1] # b[1] THEN a[1] < b[1]
    ELSE CodesLess(Tail(a), Tail(b))

StrLess(s, t) == CodesLess(CodePoints[s], CodePoints[t])

\* sorted(S, reverse=True): descending.
RECURSIVE sorted_reverse(_)
sorted_reverse(S) ==
    IF S = {} THEN <<>>
    ELSE LET m == CHOOSE x \in S : \A y \in S : ~StrLess(x, y)
         IN  <<m>> \o sorted_reverse(S \ {m})

\* sorted(S) of a set of topic strings: ascending, smallest first.
RECURSIVE sorted(_)
sorted(S) ==
    IF S = {} THEN <<>>
    ELSE LET m == CHOOSE x \in S : \A y \in S : ~StrLess(y, x)
         IN  <<m>> \o sorted(S \ {m})

\* The loop of extract_aspects over the entities, building the set topics.
RECURSIVE collect_topics(_, _)
collect_topics(es, acc) ==
    IF es = <<>> THEN acc
    ELSE LET raw_label == dict_get(es[1], "entity_group")
             mapped_topic == dict_get(ASPECT_MAP, raw_label)
         IN  collect_topics(Tail(es),
                            IF mapped_topic \in ALLOWED_TOPICS
                            THEN acc \cup {mapped_topic} ELSE acc)

\* extract_aspects after the pipeline returned the entity list `es`.
extract_aspects(es) == sorted(collect_topics(es, {}))

\* Entities the capability can return: one per raw label, mapped or not, and
\* one that carries no entity_group at all.
RawLabels == DOMAIN ASPECT_MAP \cup {"COLOR", "food"}
Entities == {[entity_group |-> l, word |-> "w"] : l \in RawLabels} \cup {[word |-> "w"]}
EntityLists == SeqsUpTo(Entities, MaxEnts)

(***************************************************************************)
(* paraphrase_review                                                       *)
(***************************************************************************)
\* Characters str.strip() removes.
isspace(ch) == ch \in {" ", "\t", "\n", "\r"}

RECURSIVE lstrip(_)
lstrip(s) == IF s # <<>> /\ isspace(s[1]) THEN lstrip(Tail(s)) ELSE s

RECURSIVE rstrip(_)
rstrip(s) ==
    IF s # <<>> /\ isspace(s[Len(s)]) THEN rstrip(SubSeq(s, 1, Len(s) - 1)) ELSE s

strip(s) == rstrip(lstrip(s))

max_length == 256
num_beams == 4

\* The call paraphrase_pipe(review, max_length=256, num_beams=4, do_sample=False).
paraphrase_kwargs == [max_length |-> max_length, num_beams |-> num_beams, do_sample |-> FALSE]

paraphrase_review_last(cands) == strip(cands[Len(cands)].generated_text)

\* paraphrase_review after the pipeline returned the candidates `cands`.
paraphrase_review(cands) == strip(cands[1].generated_text)

TextAlphabet == {"a", " ", "\n"}
Texts == SeqsUpTo(TextAlphabet, MaxTextLen)
NiceStay == <<" ", "N", "i", "c", "e", " ", "s", "t", "a", "y", ".", " ">>
Candidates ==
    {<<[generated_text |-> t]>> : t \in Texts \cup {NiceStay}}
    \cup {<<[generated_text |-> t], [generated_text |-> u]>> : t \in Texts, u \in Texts}

(***************************************************************************)
(* The cached loaders: load_rating_pipe, load_aspect_pipe and              *)
(* load_paraphrase_pipe, each under @st.cache_resource.                    *)
(***************************************************************************)
Kinds == {"rating", "aspect", "paraphrase"}

\* pipeline(task, model=...) as each loader calls it.
pipeline_config ==
    [k \in Kinds |->
        CASE k = "rating" ->
               [task |-> "text-classification",
                model |-> "LiYuan/amazon-review-sentiment-analysis"]
          [] k = "aspect" ->
               [task |-> "token-classification",
                model |-> "dvquys/ner-finetune-restaurant-reviews-aspects"]
          [] k = "paraphrase" ->
               [task |-> "text2text-generation",
                model |-> "humarin/chatgpt_paraphraser_on_T5_base"]]

NoHandle == [kind |-> "none", task |-> "none", model |-> "none", id |-> 0]

\* The pipeline object a construction returns; id tells two objects apart.
new_handle(k) ==
    [kind |-> k, task |-> pipeline_config[k].task, model |-> pipeline_config[k].model,
     id |-> 1 + constructed["rating"] + constructed["aspect"] + constructed["paraphrase"]]

function_key_shared(k) == "rating"

\* st.cache_resource keeps one store per decorated function.
function_key(k) == k

is_cached_never(key) == FALSE

\* cache.read_result(key) finds a value.
is_cached(key) == cache[key] # NoHandle

CacheEmpty ==
    /\ cache = [k \in Kinds |-> NoHandle]
    /\ constructed = [k \in Kinds |-> 0]
    /\ lock = [k \in Kinds |-> 0]

Callers == 1..NumCallers
CallersIdle == callers = [c \in Callers |-> [pc |-> "idle", kind |-> "none", got |-> NoHandle, calls |-> 0]]

RECURSIVE CallsMade(_)
CallsMade(n) == IF n = 0 THEN 0 ELSE callers[n].calls + CallsMade(n - 1)

\* A caller calls one of the three loaders.
Call(c, k) ==
    /\ callers[c].pc \in {"idle", "returned", "raised"}
    /\ CallsMade(NumCallers) < MaxCalls
    /\ callers' = [callers EXCEPT ![c] = [pc |-> "read", kind |-> k, got |-> NoHandle,
                                          calls |-> @.calls + 1]]
    /\ UNCHANGED <<cache, constructed, lock>>
    /\ UNCHANGED <<pageVars, starsVars, aspectVars, paraVars, orderVars>>

\* _get_or_create_cached_value: the first read, outside the lock.
ReadHit(c) ==
    /\ callers[c].pc = "read"
    /\ is_cached(function_key(callers[c].kind))
    /\ callers' = [callers EXCEPT ![c].pc = "returned",
                                  ![c].got = cache[function_key(callers[c].kind)]]
    /\ UNCHANGED <<cache, constructed, lock>>
    /\ UNCHANGED <<pageVars, starsVars, aspectVars, paraVars, orderVars>>

ReadMiss(c) ==
    /\ callers[c].pc = "read"
    /\ ~is_cached(function_key(callers[c].kind))
    /\ callers' = [callers EXCEPT ![c].pc = "wait"]
    /\ UNCHANGED <<cache, constructed, lock>>
    /\ UNCHANGED <<pageVars, starsVars, aspectVars, paraVars, orderVars>>

\* _handle_cache_miss: with cache.compute_value_lock.
Acquire(c) ==
    /\ callers[c].pc = "wait"
    /\ lock[function_key(callers[c].kind)] = 0
    /\ lock' = [lock EXCEPT ![function_key(callers[c].kind)] = c]
    /\ callers' = [callers EXCEPT ![c].pc = "locked"]
    /\ UNCHANGED <<cache, constructed>>
    /\ UNCHANGED <<pageVars, starsVars, aspectVars, paraVars, orderVars>>

\* The second read, under the lock: another caller may have computed the value.
LockedHit(c) ==
    /\ callers[c].pc = "locked"
    /\ is_cached(function_key(callers[c].kind))
    /\ callers' = [callers EXCEPT ![c].pc = "returned",
                                  ![c].got = cache[function_key(callers[c].kind)]]
    /\ lock' = [lock EXCEPT ![function_key(callers[c].kind)] = 0]
    /\ UNCHANGED <<cache, constructed>>
    /\ UNCHANGED <<pageVars, starsVars, aspectVars, paraVars, orderVars>>

\* The loader's body runs: pipeline(...) returns a new object.
Construct(c) ==
    /\ callers[c].pc = "locked"
    /\ ~is_cached(function_key(callers[c].kind))
    /\ callers' = [callers EXCEPT ![c].pc = "computed", ![c].got = new_handle(callers[c].kind)]
    /\ constructed' = [constructed EXCEPT ![callers[c].kind] = @ + 1]
    /\ UNCHANGED <<cache, lock>>
    /\ UNCHANGED <<pageVars, starsVars, aspectVars, paraVars, orderVars>>

\* The loader's body raises (the model cannot be loaded): nothing is stored.
ConstructFails(c) ==
    /\ callers[c].pc = "locked"
    /\ ~is_cached(function_key(callers[c].kind))
    /\ callers' = [callers EXCEPT ![c].pc = "raised"]
    /\ lock' = [lock EXCEPT ![function_key(callers[c].kind)] = 0]
    /\ UNCHANGED <<cache, constructed>>
    /\ UNCHANGED <<pageVars, starsVars, aspectVars, paraVars, orderVars>>

\* cache.write_result, then the lock is released and the value returned.
WriteResult(c) ==
    /\ callers[c].pc = "computed"
    /\ cache' = [cache EXCEPT ![function_key(callers[c].kind)] = callers[c].got]
    /\ lock' = [lock EXCEPT ![function_key(callers[c].kind)] = 0]
    /\ callers' = [callers EXCEPT ![c].pc = "returned"]
    /\ UNCHANGED constructed
    /\ UNCHANGED <<pageVars, starsVars, aspectVars, paraVars, orderVars>>

(***************************************************************************)
(* The page script: one run per user interaction.                          *)
(***************************************************************************)
MinWords == 10

\* str.split(): the maximal runs of non-whitespace characters.
RECURSIVE split_from(_, _, _)
split_from(s, cur, acc) ==
    IF s = <<>> THEN (IF cur = <<>> THEN acc ELSE Append(acc, cur))
    ELSE IF isspace(s[1])
         THEN split_from(Tail(s), <<>>, IF cur = <<>> THEN acc ELSE Append(acc, cur))
         ELSE split_from(Tail(s), Append(cur, s[1]), acc)

split(s) == split_from(s, <<>>, <<>>)

\* stars_to_string: filled stars (U+2605), then empty ones (U+2606).
stars_to_string(n) ==
    LET k == Max(1, Min(5, n))
    IN  [i \in 1..5 |-> IF i <= k THEN "U+2605" ELSE "U+2606"]

\* n words joined by the separator sep.
RECURSIVE Words(_, _)
Words(n, sep) ==
    IF n = 0 THEN <<>>
    ELSE IF n = 1 THEN <<"w">>
    ELSE Words(n - 1, sep) \o sep \o <<"w">>

\* What the user can have typed into the review text area.
NineWordsPadded == <<" ">> \o Words(9, <<" ", " ">>) \o <<"\n", " ">>
TenWords == Words(10, <<" ">>)
ElevenWords == <<" ">> \o Words(11, <<" ", "\n">>)
ReviewTexts == {<<>>, NineWordsPadded, TenWords, ElevenWords}

\* The optional metadata widgets.
MetaInputs ==
    { [hotel_name |-> "", trip_type |-> "Not specified", stay_year |-> "Not specified"],
      [hotel_name |-> "Grand Ocean View Hotel", trip_type |-> "Business",
       stay_year |-> "Not specified"],
      [hotel_name |-> "", trip_type |-> "Not specified", stay_year |-> "2024"] }

WidgetValues ==
    { [review_text |-> t, hotel_name |-> m.hotel_name, trip_type |-> m.trip_type,
       stay_year |-> m.stay_year, analyze_button |-> b] :
        t \in ReviewTexts, m \in MetaInputs, b \in BOOLEAN }

EmptyDict == [k \in {} |-> None]
NoRender == [shown |-> FALSE]
Stage == [pc |-> "start", handle |-> NoHandle]
NoSubmission == [accepted |-> FALSE]

\* What the capabilities answer during one analysis, and the one place (if any)
\* where a loader or an inference call raises.
GreatStay ==
    <<"G", "r", "e", "a", "t", " ", "s", "t", "a", "y", " ", "o", "v", "e", "r", "a",
      "l", "l", ".">>
FailurePoints == {<<"none", "none">>} \cup (Kinds \X {"load", "infer"})
Oracles ==
    { [fail |-> f,
       out |-> [rating |-> l, aspect |-> e, paraphrase |-> g]] :
        f \in FailurePoints,
        l \in { <<"4", " ", "s", "t", "a", "r", "s">>,
                <<"p", "o", "s", "i", "t", "i", "v", "e">> },
        e \in { << [entity_group |-> "STAFF", word |-> "w"],
                   [entity_group |-> "LOCATION", word |-> "w"],
                   [entity_group |-> "FOOD", word |-> "w"] >>,
                << [entity_group |-> "COLOR", word |-> "w"] >> },
        g \in { << [generated_text |-> <<" ">> \o GreatStay \o <<"\n">>],
                   [generated_text |-> <<"a">>] >> } }
NoOracle == [fail |-> <<"none", "none">>, out |-> [rating |-> <<>>, aspect |-> <<>>, paraphrase |-> <<>>]]

RunLocalsReset ==
    /\ review' = <<>>
    /\ meta' = EmptyDict
    /\ stars' = 0
    /\ star_string' = <<>>
    /\ topics' = <<>>
    /\ cleaned_review' = <<>>
    /\ warning' = "none"
    /\ outcome' = "none"
    /\ rendered' = NoRender
    /\ invoked' = {}
    /\ threads' = [k \in Kinds |-> Stage]
    /\ oracle' = NoOracle

\* A widget interaction: Streamlit runs the script again from the top.
Rerun(w) ==
    /\ pc = "done"
    /\ widgets' = w
    /\ pc' = "validate"
    /\ RunLocalsReset
    /\ submitted' = IF w.analyze_button /\ Len(split(w.review_text)) >= 10
                    THEN [accepted |-> TRUE, review_text |-> w.review_text,
                          hotel_name |-> w.hotel_name, trip_type |-> w.trip_type,
                          stay_year |-> w.stay_year]
                    ELSE submitted
    /\ UNCHANGED <<session_state, cacheVars, starsVars, aspectVars, paraVars>>

\* word_count < 10 with another threshold.
too_short_off_by_one(word_count) == word_count < MinWords - 1

\* The test of line 300.
too_short(word_count) == word_count < MinWords

\* The left column after the widgets: the validation of a submission.
Validate ==
    /\ pc = "validate"
    /\ pc' = "right"
    /\ IF widgets.analyze_button
       THEN LET word_count == Len(split(widgets.review_text))
            IN  IF too_short(word_count)
                THEN warning' = "too_short" /\ UNCHANGED session_state
                ELSE IF strip(widgets.review_text) = <<>>
                THEN warning' = "empty" /\ UNCHANGED session_state
                ELSE /\ UNCHANGED warning
                     /\ session_state' =
                          [k \in {"last_review", "last_meta"} |->
                              IF k = "last_review" THEN widgets.review_text
                              ELSE [hotel_name |-> widgets.hotel_name,
                                    trip_type |-> widgets.trip_type,
                                    stay_year |-> widgets.stay_year]]
       ELSE UNCHANGED <<warning, session_state>>
    /\ UNCHANGED <<widgets, review, meta, stars, star_string, topics, cleaned_review,
                   outcome, rendered, invoked, submitted, cacheVars, starsVars,
                   aspectVars, paraVars, orderVars>>

\* The right column with no review in the session: only the hint is shown.
RightColumnInfo ==
    /\ pc = "right"
    /\ "last_review" \notin DOMAIN session_state
    /\ outcome' = "info"
    /\ pc' = "done"
    /\ UNCHANGED <<widgets, session_state, review, meta, stars, star_string, topics,
                   cleaned_review, warning, rendered, invoked, submitted, cacheVars,
                   starsVars, aspectVars, paraVars, orderVars>>

review_from_widgets == widgets.review_text

\* review = st.session_state["last_review"]
review_to_analyse == session_state["last_review"]

meta_from_widgets ==
    [hotel_name |-> widgets.hotel_name, trip_type |-> widgets.trip_type,
     stay_year |-> widgets.stay_year]

\* meta = st.session_state.get("last_meta", {})
meta_to_display ==
    IF "last_meta" \in DOMAIN session_state THEN session_state["last_meta"] ELSE EmptyDict

\* The right column with a review in the session: the analysis starts on it.
RightColumnAnalyse(o) ==
    /\ pc = "right"
    /\ "last_review" \in DOMAIN session_state
    /\ review' = review_to_analyse
    /\ meta' = meta_to_display
    /\ oracle' = o
    /\ pc' = "analyse"
    /\ UNCHANGED <<widgets, session_state, stars, star_string, topics, cleaned_review,
                   warning, outcome, rendered, invoked, submitted, threads, cacheVars,
                   starsVars, aspectVars, paraVars>>

(***************************************************************************)
(* The three stages of the analysis (lines 321-331). Each stage is a call  *)
(* of its loader, then the inference call and the normalisation of its     *)
(* output. The script runs them one after the other (pc = "analyse"); with *)
(* pc = "anyorder" they run as three threads that are joined.              *)
(***************************************************************************)
Before(k) ==
    CASE k = "rating" -> {}
      [] k = "aspect" -> {"rating"}
      [] k = "paraphrase" -> {"rating", "aspect"}

Scheduled(k) ==
    \/ pc = "analyse" /\ \A j \in Before(k) : threads[j].pc = "done"
    \/ pc = "anyorder"

done(k) ==
    /\ threads' = [threads EXCEPT ![k].pc = "done"]
    /\ UNCHANGED <<outcome, pc>>

\* An exception caught and ignored: the stage counts as done, with no value.
raise_swallowed(k) == done(k)

\* An exception in a stage: in the script it ends the run (Streamlit shows the
\* exception and nothing after the raising line runs).
raise(k) ==
    /\ threads' = [threads EXCEPT ![k].pc = "raised"]
    /\ IF pc = "analyse"
       THEN outcome' = "exception" /\ pc' = "done"
       ELSE UNCHANGED <<outcome, pc>>

\* load_rating_pipe() / load_aspect_pipe() / load_paraphrase_pipe().
StageLoad(k) ==
    /\ Scheduled(k)
    /\ threads[k].pc = "start"
    /\ LET key == function_key(k)
       IN  IF is_cached(key)
           THEN /\ threads' = [threads EXCEPT ![k] = [pc |-> "loaded", handle |-> cache[key]]]
                /\ UNCHANGED <<cache, constructed, outcome, pc>>
           ELSE IF oracle.fail = <<k, "load">>
           THEN raise(k) /\ UNCHANGED <<cache, constructed>>
           ELSE /\ cache' = [cache EXCEPT ![key] = new_handle(k)]
                /\ constructed' = [constructed EXCEPT ![k] = @ + 1]
                /\ threads' = [threads EXCEPT ![k] = [pc |-> "loaded", handle |-> new_handle(k)]]
                /\ UNCHANGED <<outcome, pc>>
    /\ UNCHANGED <<widgets, session_state, review, meta, stars, star_string, topics,
                   cleaned_review, warning, rendered, invoked, submitted, lock, callers,
                   starsVars, aspectVars, paraVars, oracle>>

\* The pipeline call on the review, and what the stage makes of its output. A
\* pipeline answers in the shape of its own task, whichever stage calls it.
StageInfer(k) ==
    /\ Scheduled(k)
    /\ threads[k].pc = "loaded"
    /\ invoked' = invoked \cup {[stage |-> k, handle |-> threads[k].handle, text |-> review]}
    /\ LET h == threads[k].handle
           out == oracle.out[h.kind]
       IN  IF oracle.fail = <<k, "infer">>
           THEN raise(k) /\ UNCHANGED <<stars, star_string, topics, cleaned_review>>
           ELSE CASE k = "rating" ->
                     LET r == IF h.kind = "rating" THEN predict_stars(out)
                              ELSE [exc |-> "KeyError", value |-> 0]
                     IN  IF r.exc # "none"
                         THEN raise(k) /\ UNCHANGED <<stars, star_string, topics, cleaned_review>>
                         ELSE /\ stars' = r.value
                              /\ star_string' = stars_to_string(r.value)
                              /\ done(k)
                              /\ UNCHANGED <<topics, cleaned_review>>
                  [] k = "aspect" ->
                     /\ topics' = IF h.kind = "aspect" THEN extract_aspects(out) ELSE <<>>
                     /\ done(k)
                     /\ UNCHANGED <<stars, star_string, cleaned_review>>
                  [] k = "paraphrase" ->
                     IF h.kind # "paraphrase"
                     THEN raise(k) /\ UNCHANGED <<stars, star_string, topics, cleaned_review>>
                     ELSE /\ cleaned_review' = paraphrase_review(out)
                          /\ done(k)
                          /\ UNCHANGED <<stars, star_string, topics>>
    /\ UNCHANGED <<widgets, session_state, review, meta, warning, rendered, submitted,
                   cacheVars, starsVars, aspectVars, paraVars, oracle>>

\* `x or default` for a string that may be None or empty.
or_default(x, default) == IF x = None \/ x = "" THEN default ELSE x

\* The three cards (lines 334-381), reached only when the three stages returned.
Render ==
    /\ pc = "analyse"
    /\ \A k \in Kinds : threads[k].pc = "done"
    /\ LET trip == dict_get(meta, "trip_type")
           year == dict_get(meta, "stay_year")
           meta_bits ==
               (IF trip \notin {None, "", "Not specified"} THEN <<<<"Trip type", trip>>>> ELSE <<>>)
               \o (IF year \notin {None, "", "Not specified"} THEN <<<<"Stayed in", year>>>> ELSE <<>>)
       IN  rendered' = [shown |-> TRUE,
                        title_line |-> or_default(dict_get(meta, "hotel_name"), "Your stay"),
                        meta_bits |-> meta_bits,
                        star_string |-> star_string,
                        stars |-> stars,
                        chips |-> topics,
                        no_topics_message |-> (topics = <<>>),
                        cleaned_review |-> cleaned_review]
    /\ outcome' = "result"
    /\ pc' = "done"
    /\ UNCHANGED <<widgets, session_state, review, meta, stars, star_string, topics,
                   cleaned_review, warning, invoked, submitted, cacheVars, starsVars,
                   aspectVars, paraVars, orderVars>>

\* The three threads are joined: a result when all three returned.
Join ==
    /\ pc = "anyorder"
    /\ \A k \in Kinds : threads[k].pc \in {"done", "raised"}
    /\ outcome' = IF \E k \in Kinds : threads[k].pc = "raised" THEN "exception" ELSE "result"
    /\ pc' = "joined"
    /\ UNCHANGED <<widgets, session_state, review, meta, stars, star_string, topics,
                   cleaned_review, warning, rendered, invoked, submitted, cacheVars,
                   starsVars, aspectVars, paraVars, orderVars>>

\* Another analysis of the same review, the loaded pipelines kept.
AnalyseAgain(o) ==
    /\ pc = "joined"
    /\ pc' = "anyorder"
    /\ stars' = 0
    /\ star_string' = <<>>
    /\ topics' = <<>>
    /\ cleaned_review' = <<>>
    /\ outcome' = "none"
    /\ invoked' = {}
    /\ threads' = [k \in Kinds |-> Stage]
    /\ oracle' = o
    /\ UNCHANGED <<widgets, session_state, review, meta, warning, rendered, submitted,
                   cacheVars, starsVars, aspectVars, paraVars>>

(***************************************************************************)
(* Initial values of each group of variables when its part is not running. *)
(***************************************************************************)
NoOutput == [done |-> FALSE, value |-> <<>>]

StarsIdle == label = <<>> /\ rating_out = NoRating
AspectsIdle == ents = <<>> /\ aspects_out = NoOutput
NoCall == [max_length |-> 0, num_beams |-> 0, do_sample |-> TRUE]
ParaIdle == gens = <<>> /\ para_call = NoCall /\ para_out = NoOutput

DefaultWidgets ==
    [review_text |-> <<>>, hotel_name |-> "", trip_type |-> "Not specified",
     stay_year |-> "Not specified", analyze_button |-> FALSE]

RunLocalsInit ==
    /\ meta = EmptyDict
    /\ stars = 0
    /\ star_string = <<>>
    /\ topics = <<>>
    /\ cleaned_review = <<>>
    /\ warning = "none"
    /\ outcome = "none"
    /\ rendered = NoRender
    /\ invoked = {}
    /\ threads = [k \in Kinds |-> Stage]

PageOff ==
    /\ widgets = DefaultWidgets
    /\ session_state = EmptyDict
    /\ submitted = NoSubmission
    /\ pc = "off"
    /\ oracle = NoOracle
    /\ review = <<>>
    /\ RunLocalsInit

CacheIdle == CacheEmpty /\ CallersIdle

(***************************************************************************)
(* predict_stars, extract_aspects and paraphrase_review applied to every   *)
(* output their capability can return.                                     *)
(***************************************************************************)
RunPredictStars ==
    /\ rating_out = NoRating
    /\ rating_out' = predict_stars(label)
    /\ UNCHANGED <<label, pageVars, cacheVars, aspectVars, paraVars, orderVars>>

RunExtractAspects ==
    /\ ~aspects_out.done
    /\ aspects_out' = [done |-> TRUE, value |-> extract_aspects(ents)]
    /\ UNCHANGED <<ents, pageVars, cacheVars, starsVars, paraVars, orderVars>>

RunParaphraseReview ==
    /\ ~para_out.done
    /\ para_call' = paraphrase_kwargs
    /\ para_out' = [done |-> TRUE, value |-> paraphrase_review(gens)]
    /\ UNCHANGED <<gens, pageVars, cacheVars, starsVars, aspectVars, orderVars>>

(***************************************************************************)
(* The page: a new session opens with the first run of the script.         *)
(***************************************************************************)
Init ==
    /\ widgets = DefaultWidgets
    /\ session_state = EmptyDict
    /\ submitted = NoSubmission
    /\ pc = "validate"
    /\ oracle = NoOracle
    /\ review = <<>>
    /\ RunLocalsInit
    /\ CacheIdle /\ StarsIdle /\ AspectsIdle /\ ParaIdle

Next ==
    \/ \E w \in WidgetValues : Rerun(w)
    \/ Validate
    \/ RightColumnInfo
    \/ \E o \in Oracles : RightColumnAnalyse(o)
    \/ \E k \in Kinds : StageLoad(k)
    \/ \E k \in Kinds : StageInfer(k)
    \/ Render

Spec == Init /\ [][Next]_vars

(***************************************************************************)
(* The three stages as threads over one accepted review.                   *)
(***************************************************************************)
InitAnyOrder ==
    /\ widgets = DefaultWidgets
    /\ session_state = EmptyDict
    /\ submitted = NoSubmission
    /\ pc = "anyorder"
    /\ oracle \in Oracles
    /\ review = TenWords
    /\ RunLocalsInit
    /\ CacheIdle /\ StarsIdle /\ AspectsIdle /\ ParaIdle

NextAnyOrder ==
    \/ \E k \in Kinds : StageLoad(k)
    \/ \E k \in Kinds : StageInfer(k)
    \/ Join
    \/ \E o \in Oracles : AnalyseAgain(o)

SpecAnyOrder == InitAnyOrder /\ [][NextAnyOrder]_vars

(***************************************************************************)
(* The loaders called by concurrent callers (one script thread per session)*)
(***************************************************************************)
InitCache == PageOff /\ CacheIdle /\ StarsIdle /\ AspectsIdle /\ ParaIdle

NextCache ==
    \/ \E c \in Callers, k \in Kinds : Call(c, k)
    \/ \E c \in Callers : ReadHit(c)
    \/ \E c \in Callers : ReadMiss(c)
    \/ \E c \in Callers : Acquire(c)
    \/ \E c \in Callers : LockedHit(c)
    \/ \E c \in Callers : Construct(c)
    \/ \E c \in Callers : ConstructFails(c)
    \/ \E c \in Callers : WriteResult(c)

SpecCache == InitCache /\ [][NextCache]_vars

(***************************************************************************)
(* The normalisers over every capability output.                           *)
(***************************************************************************)
InitStars ==
    /\ PageOff /\ CacheIdle /\ AspectsIdle /\ ParaIdle
    /\ label \in Labels
    /\ rating_out = NoRating

SpecStars == InitStars /\ [][RunPredictStars]_vars

InitAspects ==
    /\ PageOff /\ CacheIdle /\ StarsIdle /\ ParaIdle
    /\ ents \in EntityLists
    /\ aspects_out = NoOutput

SpecAspects == InitAspects /\ [][RunExtractAspects]_vars

InitPara ==
    /\ PageOff /\ CacheIdle /\ StarsIdle /\ AspectsIdle
    /\ gens \in Candidates
    /\ para_call = NoCall
    /\ para_out = NoOutput

SpecPara == InitPara /\ [][RunParaphraseReview]_vars

(***************************************************************************)
(* The claims.                                                             *)
(***************************************************************************)
Whitespace == {" ", "\t", "\n", "\r"}

\* The number of whitespace-delimited tokens of a text: its token starts.
TokenCount(s) ==
    Cardinality({i \in 1..Len(s) :
                    s[i] \notin Whitespace /\ (i = 1 \/ s[i - 1] \in Whitespace)})

ShortSubmission ==
    /\ pc \in {"right", "analyse", "done"}
    /\ widgets.analyze_button
    /\ TokenCount(widgets.review_text) < 10

StagesInvoked == {c.stage : c \in invoked}

\* C1: whatever runs and submissions came before, a text of fewer than 10
\* whitespace-delimited tokens is never stored as last_review and never handed
\* to a stage: every review a stage is invoked on has at least 10 tokens.
C1_OnlyLongReviewsAnalysed ==
    /\ "last_review" \in DOMAIN session_state
          => TokenCount(session_state["last_review"]) >= 10
    /\ \A c \in invoked : TokenCount(c.text) >= 10
    /\ (\E k \in Kinds : threads[k].pc # "start") => TokenCount(review) >= 10

\* A rejected submission made after an accepted one, in a run whose three
\* stages ran.
C1_Witness ==
    /\ ShortSubmission
    /\ pc = "done"
    /\ warning = "too_short"
    /\ StagesInvoked = Kinds

\* C2 as stated: in a run with a submission of fewer than 10 words the user
\* is warned and no inference capability is invoked, whatever was submitted
\* in earlier runs.
C2_ShortSubmissionNoInference ==
    ShortSubmission => (warning # "none" /\ invoked = {})

\* C2 as amended: in a run with a submission of fewer than 10 words the user
\* is warned, the submitted text is neither stored nor handed to a capability,
\* and nothing is invoked when no earlier submission was accepted; when one
\* was, the run analyses that stored review again.
C2_ShortSubmissionNotAnalysed ==
    ShortSubmission =>
        /\ warning = "too_short"
        /\ \A c \in invoked : c.text # widgets.review_text
        /\ IF "last_review" \in DOMAIN session_state
           THEN /\ session_state["last_review"] # widgets.review_text
                /\ \A c \in invoked : c.text = session_state["last_review"]
                /\ pc = "done" => outcome \in {"result", "exception"}
                /\ outcome = "result" => StagesInvoked = Kinds
           ELSE /\ invoked = {}
                /\ pc = "done" => outcome = "info"

\* A run with a short submission that ended with the analysis of the review
\* accepted earlier.
C2_Witness ==
    /\ ShortSubmission
    /\ pc = "done"
    /\ outcome = "result"
    /\ rendered.shown
    /\ \E c \in invoked : c.stage = "paraphrase" /\ c.text = session_state["last_review"]

\* A stage of the finished run raised: the oracle's failure point was met.
StageFailed ==
    /\ pc = "done"
    /\ outcome \notin {"none", "info"}
    /\ \/ oracle.fail[2] = "infer"
       \/ oracle.fail[2] = "load" /\ cache[oracle.fail[1]] = NoHandle

\* C3: the result is never partly shown: when a stage of the run failed, in
\* its loader or its inference call, none of the result fields is rendered,
\* and whatever is rendered comes from a run whose three stages all succeeded.
C3_NeverPartial ==
    /\ StageFailed => (~rendered.shown /\ outcome = "exception")
    /\ pc = "analyse" => ~rendered.shown
    /\ rendered.shown =>
          /\ outcome = "result"
          /\ StagesInvoked = Kinds
          /\ \A k \in Kinds : threads[k].pc = "done"
          /\ rendered.stars = stars /\ rendered.chips = topics
          /\ rendered.cleaned_review = cleaned_review

\* The paraphrase call raised after the rating and the topics were computed.
C3_Witness ==
    /\ StageFailed
    /\ oracle.fail = <<"paraphrase", "infer">>
    /\ stars = 4
    /\ topics # <<>>
    /\ ~rendered.shown

\* C4: under every interleaving of concurrent and later calls of a loader, its
\* pipeline is constructed at most once, exactly once as soon as a call
\* returned, and every call returns that one object.
C4_ConstructedOnce ==
    /\ \A k \in Kinds : constructed[k] <= 1
    /\ \A c \in Callers :
          callers[c].pc = "returned" =>
              /\ constructed[callers[c].kind] = 1
              /\ callers[c].got.kind = callers[c].kind
              /\ callers[c].got = cache[callers[c].kind]
    /\ \A c, d \in Callers :
          (callers[c].pc = "returned" /\ callers[d].pc = "returned"
             /\ callers[c].kind = callers[d].kind) => callers[c].got = callers[d].got

\* Two first calls of the same loader raced: the second missed, waited for the
\* lock, and now finds the first one's pipeline stored.
C4_Witness ==
    /\ callers[1].calls = 1 /\ callers[2].calls = 1
    /\ callers[1].kind = callers[2].kind
    /\ callers[1].pc = "returned"
    /\ callers[2].pc = "locked"
    /\ cache[callers[2].kind] = callers[1].got
    /\ constructed[callers[1].kind] = 1

\* C5: for every label, predict_stars does not fail and returns an integer
\* between 1 and 5.
C5_NeverFailsInRange ==
    rating_out # NoRating => (rating_out.exc = "none" /\ rating_out.value \in 1..5)

\* The decimal digits of a label, in order, and the number they write.
ClaimDigits(lbl) == SelectSeq(lbl, LAMBDA ch : ch \in DOMAIN DecimalValue)
RECURSIVE Pow10(_)
Pow10(n) == IF n = 0 THEN 1 ELSE 10 * Pow10(n - 1)
RECURSIVE SumDigits(_, _)
SumDigits(ds, i) ==
    IF i > Len(ds) THEN 0
    ELSE DecimalValue[ds[i]] * Pow10(Len(ds) - i) + SumDigits(ds, i + 1)
ClaimRating(lbl) ==
    IF ClaimDigits(lbl) = <<>> THEN 3
    ELSE LET n == SumDigits(ClaimDigits(lbl), 1)
         IN  IF n < 1 THEN 1 ELSE IF n > 5 THEN 5 ELSE n

\* C6: predict_stars returns 3 for a label without decimal digits, and
\* otherwise the number written by the label's decimal digits, clamped to
\* [1,5].
C6_RatingFromDigits ==
    rating_out # NoRating => rating_out = [exc |-> "none", value |-> ClaimRating(label)]

\* C6 holds of every label no character of which is a digit that is not a
\* decimal digit: it fails only where C5 fails.
RatingFromDigitsWhenParsable ==
    (rating_out # NoRating /\ \A i \in 1..Len(label) : label[i] \notin DigitNotDecimal)
        => rating_out = [exc |-> "none", value |-> ClaimRating(label)]

\* The mapping table and the order of the topics, as the claim gives them.
ClaimTable ==
    { <<"FOOD", "Food & Beverage">>, <<"BEVERAGE", "Food & Beverage">>,
      <<"STAFF", "Staff & Service">>, <<"SERVICE", "Staff & Service">>,
      <<"LOCATION", "Location & Ambience">>, <<"VIEW", "Location & Ambience">>,
      <<"AMBIENCE", "Location & Ambience">> }
ClaimOrder == <<"Food & Beverage", "Location & Ambience", "Staff & Service">>
ClaimTopics(es) ==
    LET present == {p[2] : p \in {q \in ClaimTable :
                        \E i \in 1..Len(es) :
                            "entity_group" \in DOMAIN es[i] /\ es[i].entity_group = q[1]}}
    IN  SelectSeq(ClaimOrder, LAMBDA t : t \in present)

\* C7: extract_aspects returns the topics the table gives the labels present,
\* each once, in ascending order; labels outside the table and entities
\* without a label add nothing, and no entity gives the empty list.
C7_TopicsSortedAndMapped ==
    aspects_out.done => aspects_out.value = ClaimTopics(ents)

\* STAFF, then an unmapped label, then FOOD: two topics, sorted.
C7_Witness ==
    /\ aspects_out.done
    /\ Len(ents) = 3
    /\ ents[1] = [entity_group |-> "STAFF", word |-> "w"]
    /\ ents[2] = [entity_group |-> "COLOR", word |-> "w"]
    /\ ents[3] = [entity_group |-> "FOOD", word |-> "w"]
    /\ aspects_out.value = <<"Food & Beverage", "Staff & Service">>

\* C8: paraphrase_review calls the capability with max_length=256,
\* num_beams=4, do_sample=False and returns its first candidate without its
\* leading and trailing whitespace, and otherwise unchanged.
C8_FirstCandidateStripped ==
    para_out.done =>
        /\ para_call = [max_length |-> 256, num_beams |-> 4, do_sample |-> FALSE]
        /\ LET t == gens[1].generated_text
               r == para_out.value
           IN  /\ r = <<>> \/ (r[1] \notin Whitespace /\ r[Len(r)] \notin Whitespace)
               /\ \E i \in 0..Len(t) :
                     /\ i + Len(r) <= Len(t)
                     /\ r = SubSeq(t, i + 1, i + Len(r))
                     /\ \A j \in 1..i : t[j] \in Whitespace
                     /\ \A j \in (i + Len(r) + 1)..Len(t) : t[j] \in Whitespace

\* Two candidates, the first with whitespace on both sides and inside.
C8_Witness ==
    /\ para_out.done
    /\ Len(gens) = 2
    /\ gens[1].generated_text = <<" ", "a", "\n", "a">>
    /\ gens[2].generated_text = <<"a", " ">>
    /\ para_out.value = <<"a", "\n", "a">>

\* What the script's sequential order returns for the oracle's outputs.
SequentialResult ==
    <<predict_stars(oracle.out.rating).value, extract_aspects(oracle.out.aspect),
      paraphrase_review(oracle.out.paraphrase)>>

\* C9: run in any interleaving, the three stages end as the sequential order
\* does: in failure if a loader or an inference call raises, and otherwise
\* with the rating, topics and refined text the sequential order returns.
C9_OrderIndependent ==
    pc = "joined" =>
        IF \/ oracle.fail[2] = "infer"
           \/ oracle.fail[2] = "load" /\ cache[oracle.fail[1]] = NoHandle
        THEN outcome = "exception"
        ELSE /\ outcome = "result"
             /\ <<stars, topics, cleaned_review>> = SequentialResult
             /\ \A c \in invoked : c.handle.kind = c.stage /\ c.text = review

\* A joined analysis whose pipelines were loaded in the reverse of the
\* script's order.
C9_Witness ==
    /\ pc = "joined"
    /\ outcome = "result"
    /\ cache["paraphrase"].id = 1
    /\ cache["aspect"].id = 2
    /\ cache["rating"].id = 3
    /\ stars = 4
    /\ topics = <<"Food & Beverage", "Location & Ambience", "Staff & Service">>

SubmittedState ==
    IF submitted.accepted
    THEN [k \in {"last_review", "last_meta"} |->
             IF k = "last_review" THEN submitted.review_text
             ELSE [hotel_name |-> submitted.hotel_name, trip_type |-> submitted.trip_type,
                   stay_year |-> submitted.stay_year]]
    ELSE EmptyDict

C10_State ==
    /\ ("last_meta" \in DOMAIN session_state) <=> ("last_review" \in DOMAIN session_state)
    /\ pc # "validate" => session_state = SubmittedState
    /\ \A c \in invoked : submitted.accepted /\ c.text = submitted.review_text
    /\ rendered.shown =>
          /\ submitted.accepted
          /\ rendered.title_line =
                (IF submitted.hotel_name = "" THEN "Your stay" ELSE submitted.hotel_name)
          /\ rendered.meta_bits =
                (IF submitted.trip_type = "Not specified" THEN <<>>
                 ELSE <<<<"Trip type", submitted.trip_type>>>>)
                \o (IF submitted.stay_year = "Not specified" THEN <<>>
                    ELSE <<<<"Stayed in", submitted.stay_year>>>>)

C10_Step ==
    session_state' # session_state =>
        /\ pc = "validate"
        /\ widgets.analyze_button
        /\ TokenCount(widgets.review_text) >= 10
        /\ session_state' =
              [k \in {"last_review", "last_meta"} |->
                  IF k = "last_review" THEN widgets.review_text
                  ELSE [hotel_name |-> widgets.hotel_name, trip_type |-> widgets.trip_type,
                        stay_year |-> widgets.stay_year]]

\* C10: the session state changes only in the validation of an accepted
\* submission, which sets last_review and last_meta together; a rejected
\* submission and a run without a button press leave both as they were, so
\* last_meta is present exactly when last_review is, and the review analysed
\* and the metadata shown are those of the latest accepted submission.
C10_SessionOnlyOnAccepted == [](C10_State) /\ [][C10_Step]_vars

\* A finished run that shows the stored hotel name and analysed the stored
\* review while the widgets hold another name and another text.
C10_Witness ==
    /\ pc = "done"
    /\ rendered.shown
    /\ ~widgets.analyze_button
    /\ widgets.hotel_name = ""
    /\ rendered.title_line = "Grand Ocean View Hotel"
    /\ widgets.review_text # session_state["last_review"]
    /\ \E c \in invoked : c.text = session_state["last_review"]

====
